---- MODULE Spec2Model ----
(***************************************************************************)
(* Company formation server (src/app.py): the pydantic request model with  *)
(* its two validators, the four document templates, and the three Flask    *)
(* handlers.                                                               *)
(*                                                                         *)
(* A Python str is a sequence of characters; a character is a one-letter   *)
(* TLA+ string, or a token "U+XXXX" for a character outside ASCII.         *)
(* An optional value (a dict key that may be absent, a form field that may *)
(* be None) is a sequence of length 0 or 1.                                *)
(***************************************************************************)
EXTENDS Integers, Sequences, FiniteSets, TLC

VARIABLES
  now,          \* the system clock's current date, [year, month, day]
  elapsed,      \* midnights passed since the server started
  req,          \* the request last served
  resp,         \* the response returned for it
  log,          \* the steps the handler took for it, in order
  company_data, \* the CompanyFormation built for it, when validation passed
  arg,          \* validator under test: its argument
  ret,          \* validator under test: its result
  called        \* validator under test: whether it has been applied

vars == <<now, elapsed, req, resp, log, company_data, arg, ret, called>>

-----------------------------------------------------------------------------
(* Bounds *)

\* Longest state_of_formation string given to validate_state.
MaxStateLen == 2
\* Longest company_name string given to validate_company_name.
MaxNameLen == 3
\* Midnights the clock may pass in one behaviour.
MaxElapsed == 2

-----------------------------------------------------------------------------
(* Characters *)

LowerLetters ==
  <<"a","b","c","d","e","f","g","h","i","j","k","l","m",
    "n","o","p","q","r","s","t","u","v","w","x","y","z">>

UpperLetters ==
  <<"A","B","C","D","E","F","G","H","I","J","K","L","M",
    "N","O","P","Q","R","S","T","U","V","W","X","Y","Z">>

DigitChars == <<"0","1","2","3","4","5","6","7","8","9">>

Range(s) == {s[i] : i \in DOMAIN s}

LowerSet == Range(LowerLetters)
UpperSet == Range(UpperLetters)
DigitSet == Range(DigitChars)

\* What \s matches in a str pattern: the characters str.isspace() accepts.
\* U+000B VT, U+000C FF, U+000D CR, U+001C..U+001F separators, U+0085 NEL,
\* U+00A0 NBSP, U+2003 EM SPACE (one of the Unicode Zs spaces).
Whitespace ==
  {" ", "\t", "\n", "U+000B", "U+000C", "U+000D", "U+001C", "U+001D",
   "U+001E", "U+001F", "U+0085", "U+00A0", "U+2003"}

\* str.upper() of one character.  Most characters map to one character; the
\* ones below are those outside ASCII whose uppercase is ASCII letters:
\* U+00DF sharp s -> "SS", U+0131 dotless i -> "I", U+017F long s -> "S",
\* U+FB02 ligature fl -> "FL".
UpperChar(c) ==
  IF c \in LowerSet
    THEN <<UpperLetters[CHOOSE i \in DOMAIN LowerLetters : LowerLetters[i] = c]>>
    ELSE CASE c = "U+00DF" -> <<"S", "S">>
           [] c = "U+0131" -> <<"I">>
           [] c = "U+017F" -> <<"S">>
           [] c = "U+FB02" -> <<"F", "L">>
           [] OTHER -> <<c>>

RECURSIVE upper(_)
upper(v) == IF v = <<>> THEN <<>> ELSE UpperChar(Head(v)) \o upper(Tail(v))

-----------------------------------------------------------------------------
(* CompanyFormation: the validators *)

Ok(value) == [ok |-> TRUE, value |-> value, error |-> ""]
Raise(message) == [ok |-> FALSE, value |-> <<>>, error |-> message]

\* The character class [a-zA-Z0-9\s,\.\'&] of the company-name pattern.
NameClass(c) ==
  \/ c \in LowerSet
  \/ c \in UpperSet
  \/ c \in DigitSet
  \/ c \in Whitespace
  \/ c \in {",", ".", "'", "&"}

\* re.match(r'^[a-zA-Z0-9\s,\.\'&]+$', v): anchored at the start, one or more
\* characters of the class, then $, which matches at the end of the string
\* and also just before a newline that ends the string.
\* The pattern with * where the source has +.
NamePatternStar(v) ==
  \E k \in {Len(v) - 1, Len(v)} :
    /\ k >= 0
    /\ k = Len(v) \/ v[Len(v)] = "\n"
    /\ \A i \in 1..k : NameClass(v[i])

\* k: the number of characters the class consumes.
NamePatternMatches(v) ==
  \E k \in {Len(v) - 1, Len(v)} :
    /\ k >= 1
    /\ k = Len(v) \/ v[Len(v)] = "\n"
    /\ \A i \in 1..k : NameClass(v[i])

NameError ==
  "Company name can only contain alphanumeric characters, spaces, commas, periods, apostrophes, and ampersands"

validate_company_name(v) ==
  IF ~NamePatternMatches(v) THEN Raise(NameError) ELSE Ok(v)

states ==
  {   <<"A","L">>, <<"A","K">>, <<"A","Z">>, <<"A","R">>, <<"C","A">>,
      <<"C","O">>, <<"C","T">>, <<"D","E">>, <<"F","L">>, <<"G","A">>,
      <<"H","I">>, <<"I","D">>, <<"I","L">>, <<"I","N">>, <<"I","A">>,
      <<"K","S">>, <<"K","Y">>, <<"L","A">>, <<"M","E">>, <<"M","D">>,
      <<"M","A">>, <<"M","I">>, <<"M","N">>, <<"M","S">>, <<"M","O">>,
      <<"M","T">>, <<"N","E">>, <<"N","V">>, <<"N","H">>, <<"N","J">>,
      <<"N","M">>, <<"N","Y">>, <<"N","C">>, <<"N","D">>, <<"O","H">>,
      <<"O","K">>, <<"O","R">>, <<"P","A">>, <<"R","I">>, <<"S","C">>,
      <<"S","D">>, <<"T","N">>, <<"T","X">>, <<"U","T">>, <<"V","T">>,
      <<"V","A">>, <<"W","A">>, <<"W","V">>, <<"W","I">>, <<"W","Y">>,
      <<"D","C">>, <<"P","R">>, <<"G","U">>, <<"V","I">>, <<"A","S">>,
      <<"M","P">>   }

StateError == "Invalid US state or territory"

\* str.lower(), on the ASCII letters.
LowerChar(c) ==
  IF c \in UpperSet
    THEN LowerLetters[CHOOSE i \in DOMAIN UpperLetters : UpperLetters[i] = c]
    ELSE c

lower(v) == [i \in DOMAIN v |-> LowerChar(v[i])]

\* The validator without the case folding of its test.
validate_state_exact(v) ==
  IF v \notin states THEN Raise(StateError) ELSE Ok(v)

\* The validator testing v as given and returning it in lower case.
validate_state_lower(v) ==
  IF v \notin states THEN Raise(StateError) ELSE Ok(lower(v))

validate_state(v) ==
  IF upper(v) \notin states THEN Raise(StateError) ELSE Ok(upper(v))

-----------------------------------------------------------------------------
(* The clock: datetime.now() and strftime *)

Date(y, m, d) == [year |-> y, month |-> m, day |-> d]

IsLeap(y) == (y % 4 = 0 /\ y % 100 # 0) \/ y % 400 = 0

DaysInMonth(y, m) ==
  IF m = 2 THEN (IF IsLeap(y) THEN 29 ELSE 28)
  ELSE IF m \in {4, 6, 9, 11} THEN 30 ELSE 31

NextDay(t) ==
  IF t.day < DaysInMonth(t.year, t.month) THEN Date(t.year, t.month, t.day + 1)
  ELSE IF t.month < 12 THEN Date(t.year, t.month + 1, 1)
  ELSE Date(t.year + 1, 1, 1)

RECURSIVE AddDays(_, _)
AddDays(t, n) == IF n = 0 THEN t ELSE AddDays(NextDay(t), n - 1)

MonthNames ==
  <<"January", "February", "March", "April", "May", "June", "July",
    "August", "September", "October", "November", "December">>

Digit(n) == DigitChars[n + 1]

\* strftime('%d'): the day of the month, zero-padded to two digits.
strftime_d(t) == <<Digit(t.day \div 10), Digit(t.day % 10)>>

\* strftime('%B, %Y'): the month's full name, a comma, the four-digit year.
strftime_B_Y(t) ==
  <<MonthNames[t.month], ",", " ",
    Digit(t.year \div 1000), Digit((t.year \div 100) % 10),
    Digit((t.year \div 10) % 10), Digit(t.year % 10)>>

\* strftime("%d %B, %Y")
strftime_d_B_Y(t) == strftime_d(t) \o <<" ">> \o strftime_B_Y(t)

-----------------------------------------------------------------------------
(* The templates.  A drawn or written string is a sequence of pieces: a    *)
(* literal of the source is one piece, a substituted str is its characters. *)

SetFont(name, size) == [name |-> name, size |-> size]

drawCentredString(font, x, y, s) ==
  [op |-> "drawCentredString", font |-> font, x |-> x, y |-> y, s |-> s]

drawString(font, x, y, s) ==
  [op |-> "drawString", font |-> font, x |-> x, y |-> y, s |-> s]

Canvas(cmds) == [pagesize |-> "letter", cmds |-> cmds]

TitleFont == SetFont("Helvetica-Bold", 16)
BodyFont == SetFont("Helvetica", 12)

\* t1, t2, t3: the dates the three datetime.now() calls return, in order.
generate_delaware_articles(cd, t1, t2, t3) ==
  [pdf |-> Canvas(<<
     drawCentredString(TitleFont, 300, 750, <<"CERTIFICATE OF INCORPORATION">>),
     drawString(BodyFont, 50, 700, <<"FIRST: The name of this corporation is:">>),
     drawString(BodyFont, 70, 680, cd.company_name),
     drawString(BodyFont, 50, 630, <<"SECOND: Its registered office in the State of Delaware is located at:">>),
     drawString(BodyFont, 70, 610, <<"251 Little Falls Drive, Wilmington, New Castle County, Delaware 19808">>),
     drawString(BodyFont, 50, 560, <<"THIRD: The purpose of the corporation is to engage in any lawful act or activity for">>),
     drawString(BodyFont, 50, 540, <<"which corporations may be organized under the General Corporation Law of Delaware.">>),
     drawString(BodyFont, 50, 490, <<"FOURTH: The total number of shares of stock which this corporation is authorized">>),
     drawString(BodyFont, 50, 470, <<"to issue is 1,000 shares of Common Stock with $0.01 par value per share.">>),
     drawString(BodyFont, 50, 200, <<"IN WITNESS WHEREOF, the undersigned, being the incorporator hereinbefore named,">>),
     drawString(BodyFont, 50, 180, <<"has executed this Certificate of Incorporation this ">> \o strftime_d(t1) \o <<" day of">>),
     drawString(BodyFont, 50, 160, strftime_B_Y(t2) \o <<".">>),
     drawString(BodyFont, 50, 100, <<"Incorporator:">>),
     drawString(BodyFont, 70, 80, <<cd.incorporator_name>>) >>),
   text |-> <<
     <<"CERTIFICATE OF INCORPORATION">>,
     <<>>,
     <<"FIRST: The name of this corporation is:">>,
     cd.company_name,
     <<>>,
     <<"SECOND: Its registered office in the State of Delaware is located at:">>,
     <<"251 Little Falls Drive, Wilmington, New Castle County, Delaware 19808">>,
     <<>>,
     <<"THIRD: The purpose of the corporation is to engage in any lawful act or activity for">>,
     <<"which corporations may be organized under the General Corporation Law of Delaware.">>,
     <<>>,
     <<"FOURTH: The total number of shares of stock which this corporation is authorized">>,
     <<"to issue is 1,000 shares of Common Stock with $0.01 par value per share.">>,
     <<>>,
     <<"IN WITNESS WHEREOF, the undersigned, being the incorporator hereinbefore named,">>,
     <<"has executed this Certificate of Incorporation this ">> \o strftime_d_B_Y(t3) \o <<".">>,
     <<>>,
     <<"Incorporator:">>,
     <<cd.incorporator_name>> >>]

generate_delaware_llc_certificate(cd, t1, t2, t3) ==
  [pdf |-> Canvas(<<
     drawCentredString(TitleFont, 300, 750, <<"CERTIFICATE OF FORMATION">>),
     drawString(BodyFont, 50, 700, <<"FIRST: The name of the limited liability company is:">>),
     drawString(BodyFont, 70, 680, cd.company_name),
     drawString(BodyFont, 50, 630, <<"SECOND: The address of its registered office in the State of Delaware is:">>),
     drawString(BodyFont, 70, 610, <<"251 Little Falls Drive, Wilmington, New Castle County, Delaware 19808">>),
     drawString(BodyFont, 50, 560, <<"THIRD: The name and address of its registered agent in the State of Delaware is:">>),
     drawString(BodyFont, 70, 540, <<"Corporation Service Company">>),
     drawString(BodyFont, 70, 520, <<"251 Little Falls Drive">>),
     drawString(BodyFont, 70, 500, <<"Wilmington, DE 19808">>),
     drawString(BodyFont, 50, 450, <<"FOURTH: The limited liability company shall be managed by its members.">>),
     drawString(BodyFont, 50, 200, <<"IN WITNESS WHEREOF, the undersigned has executed this Certificate of Formation this ">> \o strftime_d(t1) \o <<" day of">>),
     drawString(BodyFont, 50, 180, strftime_B_Y(t2) \o <<".">>),
     drawString(BodyFont, 50, 100, <<"Authorized Person:">>),
     drawString(BodyFont, 70, 80, <<cd.incorporator_name>>) >>),
   text |-> <<
     <<"CERTIFICATE OF FORMATION">>,
     <<>>,
     <<"FIRST: The name of the limited liability company is:">>,
     cd.company_name,
     <<>>,
     <<"SECOND: The address of its registered office in the State of Delaware is:">>,
     <<"251 Little Falls Drive, Wilmington, New Castle County, Delaware 19808">>,
     <<>>,
     <<"THIRD: The name and address of its registered agent in the State of Delaware is:">>,
     <<"Corporation Service Company">>,
     <<"251 Little Falls Drive">>,
     <<"Wilmington, DE 19808">>,
     <<>>,
     <<"FOURTH: The limited liability company shall be managed by its members.">>,
     <<>>,
     <<"IN WITNESS WHEREOF, the undersigned has executed this Certificate of Formation this ">> \o strftime_d_B_Y(t3) \o <<".">>,
     <<>>,
     <<"Authorized Person:">>,
     <<cd.incorporator_name>> >>]

\* The California templates return the PDF buffer alone.
\* t1, t2: the dates the two datetime.now() calls return, in order.
generate_california_articles(cd, t1, t2) ==
  Canvas(<<
     drawCentredString(TitleFont, 300, 750, <<"ARTICLES OF INCORPORATION">>),
     drawString(BodyFont, 50, 700, <<"ARTICLE I: The name of this corporation is:">>),
     drawString(BodyFont, 70, 680, cd.company_name),
     drawString(BodyFont, 50, 630, <<"ARTICLE II: The purpose of the corporation is to engage in any lawful act or activity">>),
     drawString(BodyFont, 50, 610, <<"for which a corporation may be organized under the General Corporation Law of California.">>),
     drawString(BodyFont, 50, 560, <<"ARTICLE III: The name and address in California of the corporation's initial agent for service of process is:">>),
     drawString(BodyFont, 70, 540, <<"California Registered Agent, Inc.">>),
     drawString(BodyFont, 70, 520, <<"123 Main Street">>),
     drawString(BodyFont, 70, 500, <<"Los Angeles, CA 90001">>),
     drawString(BodyFont, 50, 200, <<"IN WITNESS WHEREOF, the undersigned, being the incorporator hereinbefore named,">>),
     drawString(BodyFont, 50, 180, <<"has executed these Articles of Incorporation this ">> \o strftime_d(t1) \o <<" day of">>),
     drawString(BodyFont, 50, 160, strftime_B_Y(t2) \o <<".">>),
     drawString(BodyFont, 50, 100, <<"Incorporator:">>),
     drawString(BodyFont, 70, 80, <<cd.incorporator_name>>) >>)

generate_california_llc_certificate(cd, t1, t2) ==
  Canvas(<<
     drawCentredString(TitleFont, 300, 750, <<"ARTICLES OF ORGANIZATION">>),
     drawString(BodyFont, 50, 700, <<"ARTICLE I: The name of the limited liability company is:">>),
     drawString(BodyFont, 70, 680, cd.company_name),
     drawString(BodyFont, 50, 630, <<"ARTICLE II: The purpose of the limited liability company is to engage in any lawful business.">>),
     drawString(BodyFont, 50, 560, <<"ARTICLE III: The name and address in California of the LLC's initial agent for service of process is:">>),
     drawString(BodyFont, 70, 540, <<"California Registered Agent, Inc.">>),
     drawString(BodyFont, 70, 520, <<"123 Main Street">>),
     drawString(BodyFont, 70, 500, <<"Los Angeles, CA 90001">>),
     drawString(BodyFont, 50, 200, <<"IN WITNESS WHEREOF, the undersigned has executed these Articles of Organization this ">> \o strftime_d(t1) \o <<" day of">>),
     drawString(BodyFont, 50, 180, strftime_B_Y(t2) \o <<".">>),
     drawString(BodyFont, 50, 100, <<"Authorized Person:">>),
     drawString(BodyFont, 70, 80, <<cd.incorporator_name>>) >>)

-----------------------------------------------------------------------------
(* CompanyFormation: construction from the request data *)

FieldNames ==
  <<"company_name", "state_of_formation", "company_type", "incorporator_name">>

\* What pydantic reports for a required str field with no str value: the key
\* is absent from the JSON object, or request.form.get returned None.
MissingError(kind) ==
  IF kind = "form" THEN "none is not an allowed value" ELSE "field required"

LiteralError == "unexpected value; permitted: 'corporation', 'LLC'"

\* company_type: Literal["corporation", "LLC"]
validate_company_type(v) ==
  IF v \in {"corporation", "LLC"} THEN Ok(v) ELSE Raise(LiteralError)

\* incorporator_name: str, no validator
validate_incorporator_name(v) == Ok(v)

ErrorLine(field, message) == <<field, ": ", message>>

\* One field: the option's value through its validator.
ValidateField(kind, opt, result) ==
  IF opt = <<>> THEN Raise(MissingError(kind)) ELSE result

FieldResults(kind, fields) ==
  [company_name |->
     ValidateField(kind, fields.company_name,
       IF fields.company_name = <<>> THEN Raise("")
       ELSE validate_company_name(fields.company_name[1])),
   state_of_formation |->
     ValidateField(kind, fields.state_of_formation,
       IF fields.state_of_formation = <<>> THEN Raise("")
       ELSE validate_state(fields.state_of_formation[1])),
   company_type |->
     ValidateField(kind, fields.company_type,
       IF fields.company_type = <<>> THEN Raise("")
       ELSE validate_company_type(fields.company_type[1])),
   incorporator_name |->
     ValidateField(kind, fields.incorporator_name,
       IF fields.incorporator_name = <<>> THEN Raise("")
       ELSE validate_incorporator_name(fields.incorporator_name[1]))]

RECURSIVE CollectErrors(_, _)
CollectErrors(results, names) ==
  IF names = <<>> THEN <<>>
  ELSE (IF results[Head(names)].ok THEN <<>>
        ELSE <<ErrorLine(Head(names), results[Head(names)].error)>>)
       \o CollectErrors(results, Tail(names))

NoModel ==
  [company_name |-> <<>>, state_of_formation |-> <<>>,
   company_type |-> "", incorporator_name |-> ""]

\* Every field is validated; the errors are collected into one ValidationError.
CompanyFormationOf(results) ==
  LET errors == CollectErrors(results, FieldNames)
  IN IF errors # <<>>
       THEN [ok |-> FALSE, model |-> NoModel, errors |-> errors]
       ELSE [ok |-> TRUE,
             model |-> [company_name |-> results.company_name.value,
                        state_of_formation |-> results.state_of_formation.value,
                        company_type |-> results.company_type.value,
                        incorporator_name |-> results.incorporator_name.value],
             errors |-> <<>>]

\* The model without the company_name validator.
CompanyFormationNoNameCheck(kind, fields) ==
  CompanyFormationOf(
    [FieldResults(kind, fields) EXCEPT
       !.company_name = ValidateField(kind, fields.company_name,
                          IF fields.company_name = <<>> THEN Raise("")
                          ELSE Ok(fields.company_name[1]))])

CompanyFormation(kind, fields) == CompanyFormationOf(FieldResults(kind, fields))

-----------------------------------------------------------------------------
(* Responses *)

NoResponse ==
  [status |-> 0, mimetype |-> "", error |-> <<>>, download_name |-> <<>>,
   entries |-> <<>>, html |-> <<>>, json |-> <<>>]

\* jsonify({"error": ...}), status
jsonify_error(message, status) ==
  [NoResponse EXCEPT !.status = status, !.mimetype = "application/json",
                     !.error = message]

send_file(entries, mimetype, download_name) ==
  [NoResponse EXCEPT !.status = 200, !.mimetype = mimetype,
                     !.entries = entries, !.download_name = download_name]

Returned(r, lg, cd) ==
  [outcome |-> "return", exc |-> "", msg |-> <<>>, resp |-> r, log |-> lg,
   company_data |-> cd]

Raised(exc, msg, lg, cd) ==
  [outcome |-> "raise", exc |-> exc, msg |-> msg, resp |-> NoResponse,
   log |-> lg, company_data |-> cd]

-----------------------------------------------------------------------------
(* POST /form-company *)

CertificatePdf ==
  <<"_","c","e","r","t","i","f","i","c","a","t","e",".","p","d","f">>
CertificateTxt ==
  <<"_","c","e","r","t","i","f","i","c","a","t","e",".","t","x","t">>
FormationDocumentsZip ==
  <<"_","f","o","r","m","a","t","i","o","n","_","d","o","c","u","m","e","n",
    "t","s",".","z","i","p">>

UnsupportedType == "Unsupported company type"
UnsupportedState ==
  "Only Delaware and California entities are supported at this time"

ZipEntry(name, kind, data) == [name |-> name, kind |-> kind, data |-> data]

\* The zip file of one PDF alone.
ZipEntriesPdfOnly(cd, doc) ==
  <<ZipEntry(cd.company_name \o CertificatePdf, "pdf", doc.pdf)>>

\* zf.writestr(...) twice: the PDF, then the text.
ZipEntries(cd, doc) ==
  <<ZipEntry(cd.company_name \o CertificatePdf, "pdf", doc.pdf),
    ZipEntry(cd.company_name \o CertificateTxt, "txt", doc.text)>>

DE == <<"D", "E">>
CA == <<"C", "A">>

\* The try block.  fault: a library call that raises while the document is
\* drawn ("render") or while the response is built ("send_file").
form_company_try(request, t1, t2, t3, fault) ==
  IF request.kind = "json_malformed"
    THEN Raised("BadRequest", <<"400 Bad Request">>, <<"request.get_json">>, <<>>)
  ELSE IF request.kind = "json_other"
    THEN Raised("TypeError", <<"argument after ** must be a mapping">>,
                <<"request.get_json", "CompanyFormation">>, <<>>)
  ELSE
    LET lg0 == <<IF request.kind = "form" THEN "request.form.get"
                 ELSE "request.get_json", "CompanyFormation">>
        v == CompanyFormation(request.kind, request.fields)
        cd == v.model
    IN IF ~v.ok THEN Raised("ValidationError", v.errors, lg0, <<>>)
       ELSE IF cd.state_of_formation = DE THEN
         IF cd.company_type \in {"corporation", "LLC"} THEN
           LET template == IF cd.company_type = "corporation"
                             THEN "generate_delaware_articles"
                             ELSE "generate_delaware_llc_certificate"
               doc == IF cd.company_type = "corporation"
                        THEN generate_delaware_articles(cd, t1, t2, t3)
                        ELSE generate_delaware_llc_certificate(cd, t1, t2, t3)
               lg1 == lg0 \o <<"validated", template>>
               lg2 == lg1 \o <<"zf.writestr", "zf.writestr", "send_file">>
           IN IF fault = "render"
                THEN Raised("RenderError", <<"render failed">>, lg1, <<cd>>)
              ELSE IF fault = "send_file"
                THEN Raised("RenderError", <<"send failed">>, lg2, <<cd>>)
              ELSE Returned(send_file(ZipEntries(cd, doc), "application/zip",
                                      cd.company_name \o FormationDocumentsZip),
                            lg2, <<cd>>)
         ELSE Returned(jsonify_error(<<UnsupportedType>>, 400),
                       lg0 \o <<"validated", "jsonify">>, <<cd>>)
       ELSE Returned(jsonify_error(<<UnsupportedState>>, 400),
                     lg0 \o <<"validated", "jsonify">>, <<cd>>)

\* The classes the handler can see raised, all subclasses of Exception.
ExceptionClasses == {"BadRequest", "TypeError", "ValidationError", "RenderError"}

\* except ValueError: pydantic's ValidationError is one, the others are not.
CatchesValueError(exc) == exc = "ValidationError"

\* except Exception
Catches(exc) == exc \in ExceptionClasses

form_company(request, t1, t2, t3, fault) ==
  LET r == form_company_try(request, t1, t2, t3, fault)
  IN IF r.outcome = "raise" /\ Catches(r.exc)
       THEN Returned(jsonify_error(r.msg, 400), r.log \o <<"except", "jsonify">>,
                     r.company_data)
       ELSE r

\* Flask around a view: what the view returns is the response; an exception
\* the view lets out becomes 500 Internal Server Error.
full_dispatch_request(r) ==
  IF r.outcome = "raise"
    THEN [r EXCEPT !.resp = [NoResponse EXCEPT !.status = 500,
                                               !.mimetype = "text/html"]]
    ELSE r

-----------------------------------------------------------------------------
(* GET /form-company-schema and GET / *)

examples ==
  <<[company_name |-> "Acme Corp, Inc.", state_of_formation |-> "DE",
     company_type |-> "corporation", incorporator_name |-> "John Smith"],
    [company_name |-> "Smith & Sons, LLC", state_of_formation |-> "DE",
     company_type |-> "LLC", incorporator_name |-> "Jane Doe"],
    [company_name |-> "Tech Innovators Co.", state_of_formation |-> "CA",
     company_type |-> "corporation", incorporator_name |-> "Michael Johnson"],
    [company_name |-> "California Dreaming, LLC", state_of_formation |-> "CA",
     company_type |-> "LLC", incorporator_name |-> "Emily Chen"]>>

form_company_schema ==
  Returned([NoResponse EXCEPT !.status = 200, !.mimetype = "application/json",
                              !.json = examples],
           <<"jsonify">>, <<>>)

\* The names bound at module level when a view runs.
ModuleNames ==
  {"Flask", "request", "jsonify", "send_file", "BaseModel", "Field",
   "validator", "Literal", "Tuple", "re", "os", "zipfile", "BytesIO", "canvas",
   "letter", "datetime", "app", "CompanyFormation",
   "generate_delaware_articles", "generate_delaware_llc_certificate",
   "generate_california_articles", "generate_california_llc_certificate",
   "form_company", "form_company_schema", "company_form"}

\* The list company_form binds to its local name states.
company_form_states ==
  <<"AL", "AK", "AZ", "AR", "CA", "CO", "CT", "DE", "FL", "GA",
    "HI", "ID", "IL", "IN", "IA", "KS", "KY", "LA", "ME", "MD",
    "MA", "MI", "MN", "MS", "MO", "MT", "NE", "NV", "NH", "NJ",
    "NM", "NY", "NC", "ND", "OH", "OK", "OR", "PA", "RI", "SC",
    "SD", "TN", "TX", "UT", "VT", "VA", "WA", "WV", "WI", "WY",
    "DC", "PR", "GU", "VI", "AS", "MP">>

\* The f-string of the page reads the name state_options_html.  A name is
\* looked up in the function's locals, then at module level.
company_form ==
  LET locals == {"states"}
  IN IF "state_options_html" \in locals \cup ModuleNames
       THEN Returned([NoResponse EXCEPT
                        !.status = 200, !.mimetype = "text/html",
                        !.html = <<[action |-> "/form-company", method |-> "POST",
                                    state_options |-> company_form_states]>>],
                     <<"format">>, <<>>)
       ELSE Raised("NameError", <<"name 'state_options_html' is not defined">>,
                   <<"format">>, <<>>)

-----------------------------------------------------------------------------
(* Requests *)

Opt(S) == {<<>>} \cup {<<x>> : x \in S}

NoFields ==
  [company_name |-> <<>>, state_of_formation |-> <<>>,
   company_type |-> <<>>, incorporator_name |-> <<>>]

NoRequest == [method |-> "", path |-> "", kind |-> "", fields |-> NoFields]

AcmeInc == <<"A","c","m","e",","," ","I","n","c",".">>
AcmeBang == <<"A","c","m","e","!">>

NameValues == {AcmeInc, AcmeBang}
StateValues == {DE, <<"d","e">>, CA, <<"T","X">>, <<"Z","Z">>, <<"U+FB02">>}
TypeValues == {"corporation", "LLC", "partnership"}
IncorporatorValues == {"John Smith"}

PostFields ==
  [company_name : Opt(NameValues), state_of_formation : Opt(StateValues),
   company_type : Opt(TypeValues), incorporator_name : Opt(IncorporatorValues)]

\* A form as the page of GET / submits it: every field filled, or none.
FormFields ==
  {f \in PostFields : \A i \in DOMAIN FieldNames : f[FieldNames[i]] # <<>>}
  \cup {NoFields}

PostRequest(kind, fields) ==
  [method |-> "POST", path |-> "/form-company", kind |-> kind, fields |-> fields]

\* kind: a JSON object, a form body, JSON that is no object (a list, null),
\* or a body with the JSON content type that does not parse.
PostRequests ==
  {PostRequest("json_object", f) : f \in PostFields}
  \cup {PostRequest("form", f) : f \in FormFields}
  \cup {PostRequest(k, NoFields) : k \in {"json_other", "json_malformed"}}

GetRequest(path) ==
  [method |-> "GET", path |-> path, kind |-> "", fields |-> NoFields]

Faults == {"none", "render", "send_file"}

StartDates == {Date(2026, 1, 30), Date(2027, 12, 30)}

NoResult == [ok |-> FALSE, value |-> <<>>, error |-> ""]

\* The requests that reach a template: only then is the clock read and only
\* then can drawing or sending fail.
Rendering ==
  {request \in PostRequests :
     LET t == Date(2026, 1, 30)
     IN "send_file" \in Range(form_company_try(request, t, t, t, "none").log)}

-----------------------------------------------------------------------------
(* The server *)

Init ==
  /\ now \in StartDates
  /\ elapsed = 0
  /\ req = NoRequest
  /\ resp = NoResponse
  /\ log = <<>>
  /\ company_data = <<>>
  /\ arg = <<>>
  /\ ret = NoResult
  /\ called = FALSE

Serve(request, r, t) ==
  /\ req' = request
  /\ resp' = r.resp
  /\ log' = r.log
  /\ company_data' = r.company_data
  /\ now' = t
  /\ UNCHANGED <<arg, ret, called>>

\* POST /form-company.  a, b: the midnights that pass between the first and
\* the second, and the second and the third, read of the clock.
PostFormCompany ==
  \E request \in PostRequests :
    \E w \in (IF request \in Rendering THEN (0..1) \X (0..1) \X Faults
               ELSE {<<0, 0, "none">>}) :
      LET a == w[1]
          b == w[2]
          fault == w[3]
      IN /\ elapsed + a + b <= MaxElapsed
         /\ elapsed' = elapsed + a + b
         /\ \E r \in {full_dispatch_request(
                         form_company(request, now, AddDays(now, a),
                                      AddDays(now, a + b), fault))} :
              Serve(request, r, AddDays(now, a + b))

GetFormCompanySchema ==
  /\ \E r \in {full_dispatch_request(form_company_schema)} :
       Serve(GetRequest("/form-company-schema"), r, now)
  /\ UNCHANGED elapsed

GetCompanyForm ==
  /\ \E r \in {full_dispatch_request(company_form)} :
       Serve(GetRequest("/"), r, now)
  /\ UNCHANGED elapsed

\* Midnight passes between two requests.
Tick ==
  /\ elapsed < MaxElapsed
  /\ elapsed' = elapsed + 1
  /\ now' = NextDay(now)
  /\ UNCHANGED <<req, resp, log, company_data, arg, ret, called>>

Next ==
  \/ PostFormCompany
  \/ GetFormCompanySchema
  \/ GetCompanyForm
  \/ Tick

Spec == Init /\ [][Next]_vars

-----------------------------------------------------------------------------
(* validate_state alone, on every string up to MaxStateLen characters *)

StateAlphabet ==
  LowerSet \cup UpperSet
  \cup {"1", " ", "U+00DF", "U+0131", "U+017F", "U+FB02"}

StateInputs == UNION {[1..n -> StateAlphabet] : n \in 0..MaxStateLen}

InitState ==
  /\ arg \in StateInputs
  /\ ret = NoResult
  /\ called = FALSE
  /\ now = Date(2026, 1, 30)
  /\ elapsed = 0
  /\ req = NoRequest
  /\ resp = NoResponse
  /\ log = <<>>
  /\ company_data = <<>>

ApplyValidateState ==
  /\ ~called
  /\ called' = TRUE
  /\ ret' = validate_state(arg)
  /\ UNCHANGED <<arg, now, elapsed, req, resp, log, company_data>>

NextState == ApplyValidateState

SpecState == InitState /\ [][NextState]_vars

-----------------------------------------------------------------------------
(* validate_company_name alone, on every string up to MaxNameLen characters *)

NameAlphabet ==
  {"A", "z", "7", " ", "\n", "U+0085", ",", ".", "'", "&", "!", "-", "U+00E9"}

NameInputs ==
  UNION {[1..n -> NameAlphabet] : n \in 0..MaxNameLen} \cup {AcmeInc, AcmeBang}

InitName ==
  /\ arg \in NameInputs
  /\ ret = NoResult
  /\ called = FALSE
  /\ now = Date(2026, 1, 30)
  /\ elapsed = 0
  /\ req = NoRequest
  /\ resp = NoResponse
  /\ log = <<>>
  /\ company_data = <<>>

ApplyValidateCompanyName ==
  /\ ~called
  /\ called' = TRUE
  /\ ret' = validate_company_name(arg)
  /\ UNCHANGED <<arg, now, elapsed, req, resp, log, company_data>>

NextName == ApplyValidateCompanyName

SpecName == InitName /\ [][NextName]_vars

-----------------------------------------------------------------------------
(* Properties *)

IsPost == req.method = "POST" /\ req.path = "/form-company"

Validated == IsPost /\ company_data # <<>>

TemplateNames ==
  {"generate_delaware_articles", "generate_delaware_llc_certificate",
   "generate_california_articles", "generate_california_llc_certificate"}

IsArchive == resp.status = 200 /\ resp.mimetype = "application/zip"

IsError400 ==
  /\ resp.status = 400
  /\ resp.mimetype = "application/json"
  /\ resp.error # <<>>
  /\ resp.entries = <<>>

\* The title drawn in the archive's PDF.
PdfTitle == resp.entries[1].data.cmds[1].s

ExpectedTitle(state, type) ==
  CASE state = DE /\ type = "corporation" -> <<"CERTIFICATE OF INCORPORATION">>
    [] state = DE /\ type = "LLC" -> <<"CERTIFICATE OF FORMATION">>
    [] state = CA /\ type = "corporation" -> <<"ARTICLES OF INCORPORATION">>
    [] state = CA /\ type = "LLC" -> <<"ARTICLES OF ORGANIZATION">>

\* C1: a validated request for (DE, corporation), (DE, LLC), (CA, corporation)
\* or (CA, LLC), served with no library failure, is answered with the archive
\* whose PDF carries that pair's title, never with an error.
C1_DispatchCoverage ==
  (/\ Validated
   /\ company_data[1].state_of_formation \in {DE, CA}
   /\ company_data[1].company_type \in {"corporation", "LLC"}
   /\ "except" \notin Range(log))
  => /\ IsArchive
     /\ PdfTitle = ExpectedTitle(company_data[1].state_of_formation,
                                 company_data[1].company_type)

\* C2: a validated request is answered 400 with exactly the "Only Delaware
\* and California" message when its normalized state is neither DE nor CA,
\* and no request whose normalized state is DE or CA gets that message.
C2_UnsupportedStateMessage ==
  Validated =>
    /\ company_data[1].state_of_formation \notin {DE, CA}
         => resp = jsonify_error(<<UnsupportedState>>, 400)
    /\ company_data[1].state_of_formation \in {DE, CA}
         => resp.error # <<UnsupportedState>>

\* C3: every POST /form-company ends in the archive download or in HTTP 400
\* with a JSON error object; a body that is no JSON object, a body that does
\* not parse, a missing field, an unsupported company_type and a library
\* failure while rendering all end in the 400 response.
C3_ArchiveOr400 ==
  IsPost =>
    /\ (IsArchive /\ resp.entries # <<>> /\ resp.error = <<>>) \/ IsError400
    /\ req.kind \in {"json_other", "json_malformed"} => IsError400
    /\ (\E i \in DOMAIN FieldNames : req.fields[FieldNames[i]] = <<>>) => IsError400
    /\ req.fields.company_type = <<"partnership">> => IsError400
    /\ "except" \in Range(log) => IsError400

C3_Witness ==
  \/ IsPost /\ req.kind = "json_other" /\ IsError400
       /\ "except" \in Range(log) /\ company_data = <<>>

\* The request's four raw fields are present and each passes its validator.
RawValid ==
  /\ req.kind \in {"json_object", "form"}
  /\ \A i \in DOMAIN FieldNames : req.fields[FieldNames[i]] # <<>>
  /\ validate_company_name(req.fields.company_name[1]).ok
  /\ validate_state(req.fields.state_of_formation[1]).ok
  /\ req.fields.company_type[1] \in {"corporation", "LLC"}

\* C4: a template is invoked and an archive entry is written only after
\* validation has passed on four present fields; a request with a missing or
\* invalid field is rejected with no template invoked and no entry written.
C4_ValidationPrecedesRendering ==
  IsPost =>
    /\ \A i \in DOMAIN log :
         log[i] \in TemplateNames \cup {"zf.writestr"}
           => RawValid /\ \E j \in 1..(i - 1) : log[j] = "validated"
    /\ ~RawValid =>
         /\ IsError400
         /\ \A i \in DOMAIN log : log[i] \notin TemplateNames \cup {"zf.writestr"}

C4_Witness ==
  /\ IsPost
  /\ RawValid
  /\ "generate_delaware_llc_certificate" \in Range(log)
  /\ "zf.writestr" \in Range(log)

\* v spells the code, each letter in either case.
SpelledAs(v, code) ==
  /\ Len(v) = Len(code)
  /\ \A i \in DOMAIN code : v[i] = code[i] \/ v[i] = LowerChar(code[i])

\* C5: validate_state accepts a value exactly when its uppercase form is one
\* of the 56 codes and returns that uppercase form; every spelling of a code
\* in lower, mixed or upper case returns the code; every other string of two
\* ASCII letters is rejected.
C5_ValidateState ==
  called =>
    /\ Cardinality(states) = 56
    /\ ret.ok <=> upper(arg) \in states
    /\ ret.ok => ret = Ok(upper(arg))
    /\ \A code \in states : SpelledAs(arg, code) => ret = Ok(code)
    /\ (/\ Len(arg) = 2
        /\ \A i \in DOMAIN arg : arg[i] \in LowerSet \cup UpperSet
        /\ \A code \in states : ~SpelledAs(arg, code))
       => ret = Raise(StateError)

C5_Witness == called /\ arg = <<"d", "E">> /\ ret = Ok(DE)

\* The characters the claim allows in a company name.
AllowedInName(c) ==
  c \in LowerSet \cup UpperSet \cup DigitSet \cup Whitespace \cup {",", ".", "'", "&"}

\* C6: validate_company_name rejects the empty name and every name with a
\* character outside letters, digits, whitespace, comma, period, apostrophe
\* and ampersand, and returns every other name unchanged.
C6_ValidateCompanyName ==
  called =>
    /\ (arg = <<>> \/ \E i \in DOMAIN arg : ~AllowedInName(arg[i]))
         => ret = Raise(NameError)
    /\ (arg # <<>> /\ \A i \in DOMAIN arg : AllowedInName(arg[i]))
         => ret = Ok(arg)
    /\ arg = AcmeBang => ~ret.ok
    /\ arg = AcmeInc => ret = Ok(AcmeInc)

C6_Witness == called /\ arg = <<"A", "&", "\n">> /\ ret.ok

\* The normalized model as a payload.
AsFields(m) ==
  [company_name |-> <<m.company_name>>,
   state_of_formation |-> <<m.state_of_formation>>,
   company_type |-> <<m.company_type>>,
   incorporator_name |-> <<m.incorporator_name>>]

\* C7: validating the normalized output of an accepted payload is accepted
\* and yields the same four field values.
C7_ValidationIdempotent ==
  Validated =>
    CompanyFormation(req.kind, AsFields(company_data[1]))
      = [ok |-> TRUE, model |-> company_data[1], errors |-> <<>>]

C7_Witness ==
  /\ Validated
  /\ req.fields.state_of_formation = <<<<"d", "e">>>>
  /\ company_data[1].state_of_formation = DE

\* C8: an archive holds exactly the entries {company_name}_certificate.pdf
\* and {company_name}_certificate.txt, company_name being the request's name
\* character for character, and is sent as
\* {company_name}_formation_documents.zip.
C8_ArchiveNames ==
  (IsPost /\ IsArchive) =>
    /\ Len(resp.entries) = 2
    /\ resp.entries[1].name = req.fields.company_name[1] \o CertificatePdf
    /\ resp.entries[2].name = req.fields.company_name[1] \o CertificateTxt
    /\ resp.download_name = req.fields.company_name[1] \o FormationDocumentsZip

C8_Witness ==
  /\ IsPost
  /\ IsArchive
  /\ req.fields.company_name = <<AcmeInc>>
  /\ resp.entries[1].name = AcmeInc \o CertificatePdf

\* C9: every GET / is answered 200 with the HTML form, its state selector
\* filled from the 56 codes.
C9_FormServed ==
  (req.method = "GET" /\ req.path = "/") =>
    /\ resp.status = 200
    /\ resp.mimetype = "text/html"
    /\ resp.html # <<>>
    /\ resp.html[1].state_options = company_form_states

Last(s) == s[Len(s)]

\* The date pieces of the archive's PDF: the day closes the line that ends
\* " day of"; the month and year are the next line, less its full stop.
PdfDayLine ==
  CHOOSE i \in DOMAIN resp.entries[1].data.cmds :
    Last(resp.entries[1].data.cmds[i].s) = " day of"
PdfDay ==
  LET s == resp.entries[1].data.cmds[PdfDayLine].s
  IN SubSeq(s, Len(s) - 2, Len(s) - 1)
PdfMonthYear ==
  LET s == resp.entries[1].data.cmds[PdfDayLine + 1].s
  IN SubSeq(s, 1, Len(s) - 1)

\* The date of the archive's text: the execution line (a blank line, the
\* signer's label and the signer follow it), less its opening literal and its
\* full stop.
TextDateLine == Len(resp.entries[2].data) - 3
TextDate ==
  LET s == resp.entries[2].data[TextDateLine]
  IN SubSeq(s, 2, Len(s) - 1)

\* C10: the date in the text body of a Delaware render is the day, month and
\* year in its PDF body.
C10_SameDate ==
  (IsPost /\ IsArchive) => TextDate = PdfDay \o <<" ">> \o PdfMonthYear

====
